---- MODULE Spec2Model ----
(***************************************************************************)
(* A model of sfv.visualizers.linearvisualizer: LinearVisualizer.visualize *)
(* and its helpers _update_edges, _update_single_label_name and            *)
(* _update_single_label_activity, acting on a caller-owned nezzle Network. *)
(*                                                                         *)
(* Numbers.  Flows are 0 or +-10^k, so that log10(|f|) is the integer k.   *)
(* A percentile is kept 100 times its value (numpy's linear interpolation  *)
(* between the two neighbouring order statistics is then exact), an edge   *)
(* width and an interpolation factor t are fractions <<num, den>> with     *)
(* den > 0, and a label position is kept twice its value.  Arithmetic is   *)
(* exact: floating-point rounding is not modelled.                         *)
(***************************************************************************)
EXTENDS Integers, Sequences, FiniteSets, TLC

VARIABLES A, args, res, hist, nodes, edges, labels

vars == <<A, args, res, hist, nodes, edges, labels>>

(***************************************************************************)
(* Bounds of the model.                                                    *)
(***************************************************************************)
\* flows are 0 or +-10^k with k in 0..MaxExp
MaxExp == 1
\* an activity change is an integer in -MaxAct..MaxAct
MaxAct == 2

(***************************************************************************)
(* Constants of the program.                                               *)
(***************************************************************************)
Radius == 20
BorderWidth == 2
LightnessThr == 200

(***************************************************************************)
(* The network: two nodes, n2i and its inverse.                            *)
(***************************************************************************)
Nodes == {"a", "B"}
NodeOrder == <<"a", "B">>
n2i == ("a" :> 0) @@ ("B" :> 1)
Idx == {n2i[n] : n \in Nodes}
i2n == [i \in Idx |-> CHOOSE n \in Nodes : n2i[n] = i]
Upper(iden) == IF iden = "a" THEN "A" ELSE iden
ActId(iden) == <<Upper(iden), "_act">>
NameId(iden) == <<iden, "">>

NumIdx == Cardinality(Idx)
\* all matrix positions, row-major (the order of numpy's nonzero())
Positions == [k \in 1..(NumIdx * NumIdx) |-> <<(k - 1) \div NumIdx, (k - 1) % NumIdx>>]
Nonzero(M) == SelectSeq(Positions, LAMBDA p : M[p[1]][p[2]] # 0)

(***************************************************************************)
(* Arithmetic helpers.                                                     *)
(***************************************************************************)
Abs(x) == IF x < 0 THEN -x ELSE x
Min2(x, y) == IF x < y THEN x ELSE y
Max2(x, y) == IF x > y THEN x ELSE y
Clip(x, lo, hi) == Min2(Max2(x, lo), hi)

RECURSIVE Pow10(_)
Pow10(k) == IF k = 0 THEN 1 ELSE 10 * Pow10(k - 1)

\* log10 of a positive integer; exact on the powers of ten the model uses
RECURSIVE Log10(_)
Log10(x) == IF x < 10 THEN 0 ELSE 1 + Log10(x \div 10)

RemoveAt(s, k) == [m \in 1..(Len(s) - 1) |-> IF m < k THEN s[m] ELSE s[m + 1]]

RECURSIVE Sorted(_)
Sorted(s) ==
  IF s = <<>> THEN <<>>
  ELSE LET Take(k) == <<s[k]>> \o Sorted(RemoveAt(s, k))
       IN Take(CHOOSE k \in 1..Len(s) : \A m \in 1..Len(s) : s[k] <= s[m])

SeqMin(s) == Sorted(s)[1]
SeqMax(s) == Sorted(s)[Len(s)]

\* 100 * np.percentile(s, q) for a non-empty s (method 'linear')
Percentile100(s, q) ==
  LET n == Len(s)
      k == (n - 1) * q
      lo == k \div 100
      rem == k % 100
      hi == IF lo + 1 < n THEN lo + 1 ELSE lo
      Lerp(srt) == 100 * srt[lo + 1] + rem * (srt[hi + 1] - srt[lo + 1])
  IN Lerp(Sorted(s))

FracEq(x, y) == x[1] * y[2] = y[1] * x[2]
FracLeq(x, y) == x[1] * y[2] <= y[1] * x[2]
FracOf(n) == <<n, 1>>

(***************************************************************************)
(* Colours, fonts, formats: the values of the arguments.                   *)
(***************************************************************************)
White == <<255, 255, 255>>
Black == <<0, 0, 0>>
Red == <<255, 0, 0>>
Blue == <<0, 0, 255>>
Green == <<0, 128, 0>>
Orange == <<255, 165, 0>>

\* a color_up / color_dn argument: unset, a QColor, an RGB triple as a
\* 3-element np.ndarray or as a list, or a colour name
NoColor == [kind |-> "None", rgb |-> Black]
QColor(c) == [kind |-> "QColor", rgb |-> c]
NdArray(c) == [kind |-> "ndarray", rgb |-> c]
RgbList(c) == [kind |-> "list", rgb |-> c]
ColorName == [kind |-> "str", rgb |-> Black]

\* a font argument: unset, or a QFont
NoFont == [family |-> "", size |-> 0]
Arial10 == [family |-> "Arial", size |-> 10]
Times12 == [family |-> "Times", size |-> 12]
ToolkitFont == [family |-> "toolkit", size |-> 9]

\* a format string or a text is a sequence of pieces: "spec" is a conversion
\* such as %.5f, "esc" is an escaped percent sign followed by the text of a
\* conversion (%%.5f), "val" is a rendered number, "lit" is other text
Spec5f == [t |-> "spec", v |-> 0]
Esc5f == [t |-> "esc", v |-> 0]
Lit == [t |-> "lit", v |-> 0]
Val(x) == [t |-> "val", v |-> x]

NumSpecs(s) == Cardinality({k \in 1..Len(s) : s[k].t = "spec"})

\* Python's  s % x  for one number x: every conversion consumes an argument,
\* %% becomes %, and the number of conversions must be exactly one
Format(s, x) ==
  IF NumSpecs(s) # 1
  THEN [err |-> "TypeError", text |-> <<>>]
  ELSE [err |-> "none",
        text |-> [k \in 1..Len(s) |->
                    IF s[k].t = "spec" THEN Val(x)
                    ELSE IF s[k].t = "esc" THEN Spec5f
                    ELSE s[k]]]

\* the rendered bounding box of a label (of the graphics toolkit): grows
\* with the text and with the font size
BoundingRect(text, font) ==
  [width |-> font.size * Len(text), height |-> 2 * font.size]

\* QColor.lightness(): the HSL lightness of a colour
Lightness(c) ==
  (Max2(c[1], Max2(c[2], c[3])) + Min2(c[1], Min2(c[2], c[3]))) \div 2

(***************************************************************************)
(* _update_edges                                                           *)
(***************************************************************************)
\* log_flows: log10 of the magnitudes of the nonzero entries of F
LogFlows(F) ==
  LET nz == Nonzero(F)
  IN [k \in 1..Len(nz) |-> Log10(Abs(F[nz[k][1]][nz[k][2]]))]

\* the positions the edge loop visits: the nonzero positions of A
EdgePositions(Adj) == Nonzero(Adj)

\* the edge of position (i, j): from i2n[j] (source) to i2n[i] (target)
EdgeKey(p) == <<i2n[p[2]], i2n[p[1]]>>

NewHead(cls, old) ==
  [cls |-> cls, width |-> old.width, height |-> old.height, offset |-> old.offset]

\* the arrowhead and the colour of an edge with flow f and adjacency aij
HeadFlowSignWrong(f, aij, old) ==
  IF f > 0 THEN [err |-> "none", head |-> NewHead("TRIANGLE", old), color |-> <<255, 10, 10, 70>>]
  ELSE IF f < 0 THEN [err |-> "none", head |-> NewHead("HAMMER", old), color |-> <<10, 10, 255, 70>>]
  ELSE IF f > 0 THEN [err |-> "none", head |-> NewHead("TRIANGLE", old), color |-> <<100, 100, 100, 100>>]
  ELSE IF f < 0 THEN [err |-> "none", head |-> NewHead("HAMMER", old), color |-> <<100, 100, 100, 100>>]
  ELSE [err |-> "RuntimeError", head |-> old, color |-> <<100, 100, 100, 100>>]

HeadAndColor(f, aij, old) ==
  IF f > 0 THEN [err |-> "none", head |-> NewHead("TRIANGLE", old), color |-> <<255, 10, 10, 70>>]
  ELSE IF f < 0 THEN [err |-> "none", head |-> NewHead("HAMMER", old), color |-> <<10, 10, 255, 70>>]
  ELSE IF aij > 0 THEN [err |-> "none", head |-> NewHead("TRIANGLE", old), color |-> <<100, 100, 100, 100>>]
  ELSE IF aij < 0 THEN [err |-> "none", head |-> NewHead("HAMMER", old), color |-> <<100, 100, 100, 100>>]
  ELSE [err |-> "RuntimeError", head |-> old, color |-> <<100, 100, 100, 100>>]

\* the width of an edge with flow f, a fraction; flow_thr100 is 100 * flow_thr
EdgeWidthNoClamp(f, flow_min, flow_max, flow_thr100, lw_min, lw_max) ==
  IF f = 0 THEN <<lw_min, 1>>
  ELSE IF flow_max - flow_min = 0 THEN <<lw_max + lw_min, 2>>
  ELSE LET log_f == Clip(100 * Log10(Abs(f)), 100 * flow_min, 100 * flow_max)
           den == 100 * (flow_max - flow_min)
       IN <<(log_f - 100 * flow_min) * (lw_max - lw_min) + lw_min * den, den>>

EdgeWidthNoMidpoint(f, flow_min, flow_max, flow_thr100, lw_min, lw_max) ==
  IF f = 0 THEN <<lw_min, 1>>
  ELSE IF flow_max - flow_min = 0 THEN <<lw_max, 1>>
  ELSE LET log_f == Clip(100 * Log10(Abs(f)), 100 * flow_min, flow_thr100)
           den == 100 * (flow_max - flow_min)
       IN <<(log_f - 100 * flow_min) * (lw_max - lw_min) + lw_min * den, den>>

EdgeWidth(f, flow_min, flow_max, flow_thr100, lw_min, lw_max) ==
  IF f = 0 THEN <<lw_min, 1>>
  ELSE IF flow_max - flow_min = 0 THEN <<lw_max + lw_min, 2>>
  ELSE LET log_f == Clip(100 * Log10(Abs(f)), 100 * flow_min, flow_thr100)
           den == 100 * (flow_max - flow_min)
       IN <<(log_f - 100 * flow_min) * (lw_max - lw_min) + lw_min * den, den>>

\* flow_max, flow_min and 100 * flow_thr of a non-empty log_flows
FlowStats(log_flows, pct_edge) ==
  [flow_max |-> SeqMax(log_flows), flow_min |-> SeqMin(log_flows),
   flow_thr100 |-> Percentile100(log_flows, pct_edge)]

\* the loop over the positions ps[k..]; it stops at the first error
RECURSIVE EdgeLoop(_, _, _, _, _, _)
EdgeLoop(k, ps, es, Adj, a, st) ==
  IF k > Len(ps) THEN [edges |-> es, err |-> "none", at |-> "return"]
  ELSE LET p == ps[k]
           f == a.F[p[1]][p[2]]
           key == EdgeKey(p)
           Set(h, w) ==
             IF h.err # "none"
             THEN [edges |-> es, err |-> h.err, at |-> "edge_sign"]
             ELSE EdgeLoop(k + 1, ps,
                           [es EXCEPT ![key] = [head |-> h.head, fill |-> h.color, width |-> w]],
                           Adj, a, st)
       IN IF key \notin DOMAIN es
          THEN [edges |-> es, err |-> "KeyError", at |-> "edge"]
          ELSE Set(HeadAndColor(f, Adj[p[1]][p[2]], es[key].head),
                   EdgeWidth(f, st.flow_min, st.flow_max, st.flow_thr100,
                             a.lw_min, a.lw_max))

\* max() and min() of an empty log_flows raise ValueError
UpdateEdges(es, Adj, a) ==
  LET Go(log_flows) ==
        IF log_flows = <<>>
        THEN [edges |-> es, err |-> "ValueError", at |-> "log_flows"]
        ELSE EdgeLoop(1, EdgePositions(Adj), es, Adj, a,
                      FlowStats(log_flows, a.pct_edge))
  IN Go(LogFlows(a.F))

(***************************************************************************)
(* Labels.  Lengths of the network are kept in twentieths of a unit, so    *)
(* that 1.1 * w, w / 2 and w / 2 + 0.5 are integers.                       *)
(***************************************************************************)
\* TextLabel(node, text=...): a new label with the toolkit's defaults
TextLabel(text) ==
  [text |-> text, pos |-> <<0, 0>>, font |-> ToolkitFont, color |-> Black, bold |-> FALSE]

\* net.add_label / the registry after a label object was changed in place
PutLabel(ls, id, lab) == [k \in (DOMAIN ls) \cup {id} |-> IF k = id THEN lab ELSE ls[k]]

\* the else branch of show_act: remove the activity label when it is there
KeepActLabel(ls, iden) == ls

RemoveActLabel(ls, iden) ==
  IF ActId(iden) \in DOMAIN ls
  THEN [k \in (DOMAIN ls) \ {ActId(iden)} |-> ls[k]]
  ELSE ls

\* _update_single_label_name
UpdateSingleLabelName(ls, node, fix_node_size, font) ==
  LET id == NameId(node.name)
      Place(dark, rect) ==
        [labels |-> PutLabel(ls, id,
                             [ls[id] EXCEPT !.font = font,
                                            !.color = IF dark THEN White ELSE Black,
                                            !.bold = dark,
                                            !.pos = <<-10 * rect.width, -10 * rect.height>>]),
         node |-> IF ~fix_node_size
                  THEN [node EXCEPT !.width = 22 * rect.width, !.height = 22 * rect.height]
                  ELSE node]
  IN Place(Lightness(node.fill) < LightnessThr, BoundingRect(ls[id].text, font))

\* the graphics of an activity label: reset unless fix_act_label
ActGraphicsAlways(lab, node, fix_act_label, font) ==
  [lab EXCEPT !.font = font,
              !.color = <<20, 20, 20>>,
              !.pos = <<node.width \div 2 + 10,
                        -10 * BoundingRect(lab.text, font).height>>]

ActGraphics(lab, node, fix_act_label, font) ==
  IF ~fix_act_label
  THEN [lab EXCEPT !.font = font,
                   !.color = <<20, 20, 20>>,
                   !.pos = <<node.width \div 2 + 10,
                             -10 * BoundingRect(lab.text, font).height>>]
  ELSE lab

\* _update_single_label_activity
UpdateSingleLabelActivity(ls, node, activity, fix_act_label, fmt, font) ==
  LET iden == ActId(node.iden)
      Update(again) ==
        IF again.err # "none" THEN [labels |-> ls, err |-> again.err]
        ELSE [labels |-> PutLabel(ls, iden,
                                  ActGraphics([ls[iden] EXCEPT !.text = again.text],
                                              node, fix_act_label, font)),
              err |-> "none"]
      Go(str_x) ==
        IF str_x.err # "none" THEN [labels |-> ls, err |-> str_x.err]
        ELSE IF iden \notin DOMAIN ls
        THEN [labels |-> PutLabel(ls, iden,
                                  ActGraphics(TextLabel(str_x.text), node,
                                              fix_act_label, font)),
              err |-> "none"]
        ELSE Update(Format(str_x.text, activity))
  IN Go(Format(fmt, activity))

(***************************************************************************)
(* visualize                                                               *)
(***************************************************************************)
\* the truth value Python gives a colour argument in  `not color_up`:
\* a 3-element ndarray has none (ValueError)
Truth(c) ==
  IF c.kind = "None" THEN "false"
  ELSE IF c.kind = "ndarray" THEN "raises"
  ELSE "true"

\* the resolution of color_up / color_dn to an RGB triple
ResolveColorLenient(c, default) ==
  IF c.kind = "QColor" THEN [err |-> "none", rgb |-> c.rgb]
  ELSE [err |-> "none", rgb |-> default]

ResolveColor(c, default) ==
  IF Truth(c) = "raises" THEN [err |-> "ValueError", rgb |-> default]
  ELSE IF Truth(c) = "false" THEN [err |-> "none", rgb |-> default]
  ELSE IF c.kind = "QColor" THEN [err |-> "none", rgb |-> c.rgb]
  ELSE [err |-> "ValueError", rgb |-> default]

\* font = QFont('Arial', 10) when unset
ResolveFont(font) == IF font = NoFont THEN Arial10 ELSE font

\* 100 * thr: the pct_act-th percentile of |acts|, 1 when that is 0
Thr100(acts, pct_act) ==
  LET p == Percentile100([k \in 1..NumIdx |-> Abs(acts[k - 1])], pct_act)
  IN IF p = 0 THEN 100 ELSE p

\* arr_t: np.zeros_like(acts) has the dtype of acts, so that an integer
\* array keeps the integer part of each t stored into it
ArrT(acts, dtype, pct_act) ==
  LET thr100 == Thr100(acts, pct_act)
      T(i) == Clip(100 * Abs(acts[i]), 0, thr100)
  IN [i \in Idx |-> IF dtype = "int64" THEN <<T(i) \div thr100, 1>> ELSE <<T(i), thr100>>]

\* np.int32(color_white + t * (target - color_white))
Blend(t, target) ==
  [c \in 1..3 |-> (255 * t[2] + t[1] * (target[c] - 255)) \div t[2]]

\* the body of the loop over net.nodes for one node
UpdateNode(iden, ns, ls, a, arr_t, up, dn) ==
  LET idx == n2i[iden]
      font == ResolveFont(a.font)
      act == a.acts[idx]
      Sized(n) == IF ~a.fix_node_size
                  THEN [n EXCEPT !.width = 20 * Radius, !.height = 20 * Radius]
                  ELSE n
      Done(s1, s2) ==
        [nodes |-> [ns EXCEPT ![iden] = s1.node], labels |-> s2.labels, err |-> s2.err]
      Act(s1) ==
        Done(s1, IF a.show_act
                 THEN UpdateSingleLabelActivity(s1.labels, s1.node, act,
                                                a.fix_act_label, a.fmt_act, font)
                 ELSE [labels |-> RemoveActLabel(s1.labels, iden), err |-> "none"])
      Name(node) ==
        Act(IF a.show_label
            THEN UpdateSingleLabelName(ls, node, a.fix_node_size, font)
            ELSE [labels |-> ls, node |-> node])
  IN Name([Sized(ns[iden]) EXCEPT
             !.fill = IF act > 0 THEN Blend(arr_t[idx], up) ELSE Blend(arr_t[idx], dn),
             !.border_width = BorderWidth,
             !.border_color = <<40, 40, 40>>])

\* the loop over net.nodes from NodeOrder[k]; it stops at the first error
RECURSIVE UpdateNodes(_, _, _, _, _, _, _)
UpdateNodes(k, ns, ls, a, arr_t, up, dn) ==
  LET Step(r) == IF r.err # "none" THEN r
                 ELSE UpdateNodes(k + 1, r.nodes, r.labels, a, arr_t, up, dn)
  IN IF k > Len(NodeOrder) THEN [nodes |-> ns, labels |-> ls, err |-> "none"]
     ELSE Step(UpdateNode(NodeOrder[k], ns, ls, a, arr_t, up, dn))

\* visualize(net, F, acts, A, n2i, ...): the network and the outcome after it
VisualizeResult(ns, es, ls, Adj, a) ==
  LET Edges(nl, ed) ==
        [nodes |-> nl.nodes, edges |-> ed.edges, labels |-> nl.labels,
         err |-> ed.err, at |-> ed.at]
      NodesDone(nl) ==
        IF nl.err # "none"
        THEN [nodes |-> nl.nodes, edges |-> es, labels |-> nl.labels,
              err |-> nl.err, at |-> "label_act"]
        ELSE Edges(nl, UpdateEdges(es, Adj, a))
      Colors(up, dn) ==
        IF up.err # "none"
        THEN [nodes |-> ns, edges |-> es, labels |-> ls, err |-> up.err, at |-> "color_up"]
        ELSE IF dn.err # "none"
        THEN [nodes |-> ns, edges |-> es, labels |-> ls, err |-> dn.err, at |-> "color_dn"]
        ELSE NodesDone(UpdateNodes(1, ns, ls, a,
                                   ArrT(a.acts, a.dtype, a.pct_act), up.rgb, dn.rgb))
  IN Colors(ResolveColor(a.color_up, Red), ResolveColor(a.color_dn, Blue))

\* the calls before the latest one, the last two of them: <<show_act, completed>>
Remember(h, a, r) ==
  IF r.at = "init" THEN h
  ELSE LET h2 == Append(h, <<a.show_act, r.err = "none">>)
       IN IF Len(h2) > 2 THEN Tail(h2) ELSE h2

Visualize(a) ==
  LET Becomes(r) ==
        /\ nodes' = r.nodes
        /\ edges' = r.edges
        /\ labels' = r.labels
        /\ res' = [err |-> r.err, at |-> r.at]
  IN /\ Becomes(VisualizeResult(nodes, edges, labels, A, a))
     /\ args' = a
     /\ hist' = Remember(hist, args, res)
     /\ UNCHANGED A

(***************************************************************************)
(* The arguments and the initial network.                                  *)
(***************************************************************************)
Signs == {-1, 0, 1}
FlowValues == {0} \cup {Pow10(k) : k \in 0..MaxExp} \cup {-Pow10(k) : k \in 0..MaxExp}
ActValues == (-MaxAct)..MaxAct
Matrices(S) == [Idx -> [Idx -> S]]
ActVectors == [Idx -> ActValues]

\* A = [[0, 1], [-1, 0]]: B activates a, a inhibits B
FeedbackLoop == [i \in Idx |-> [j \in Idx |-> IF i = j THEN 0 ELSE IF i = 0 THEN 1 ELSE -1]]
\* adjacency matrices without self-loops
Adjacencies == {M \in Matrices(Signs) : \A i \in Idx : M[i][i] = 0}

\* the defaults of visualize, on the flows F = 5 * A of the feedback loop
DefaultArgs ==
  [F |-> [i \in Idx |-> [j \in Idx |-> 10 * FeedbackLoop[i][j]]],
   acts |-> [i \in Idx |-> IF i = 0 THEN 1 ELSE -2],
   dtype |-> "float64",
   color_up |-> NoColor, color_dn |-> NoColor,
   lw_min |-> 1, lw_max |-> 10, pct_edge |-> 90,
   show_label |-> TRUE, show_act |-> TRUE, pct_act |-> 50,
   fmt_act |-> <<Spec5f>>,
   fix_node_size |-> FALSE, fix_act_label |-> FALSE,
   font |-> NoFont]

\* the network as the caller built it from the adjacency matrix Adj
InitNodes ==
  [n \in Nodes |-> [iden |-> n, name |-> n, width |-> 600, height |-> 600,
                    fill |-> <<200, 200, 200>>, border_width |-> 1,
                    border_color |-> Black]]
InitEdges(Adj) ==
  [key \in {EdgeKey(Nonzero(Adj)[k]) : k \in 1..Len(Nonzero(Adj))} |->
     LET p == CHOOSE p \in Idx \X Idx : EdgeKey(p) = key
     IN [head |-> [cls |-> IF Adj[p[1]][p[2]] > 0 THEN "TRIANGLE" ELSE "HAMMER",
                   width |-> 10 + p[1], height |-> 12 + p[2], offset |-> 4],
         fill |-> <<0, 0, 0, 255>>,
         width |-> <<2, 1>>]]
InitLabels ==
  [id \in {NameId(n) : n \in Nodes} |->
     [text |-> <<Lit>>, pos |-> <<0, 0>>, font |-> ToolkitFont,
      color |-> Black, bold |-> FALSE]]

InitNet(Adj) ==
  /\ A = Adj
  /\ nodes = InitNodes
  /\ edges = InitEdges(Adj)
  /\ labels = InitLabels
  /\ res = [err |-> "none", at |-> "init"]
  /\ hist = <<>>

(***************************************************************************)
(* Spec: calls that vary the activity label's arguments.                   *)
(***************************************************************************)
LabelActs == {DefaultArgs.acts, [i \in Idx |-> IF i = 0 THEN -1 ELSE 2]}
Formats == {<<Spec5f>>, <<Esc5f, Spec5f>>}
Fonts == {NoFont, Times12}

Init ==
  /\ InitNet(FeedbackLoop)
  /\ args = DefaultArgs

Next ==
  \E acts \in LabelActs, show_act \in BOOLEAN, fix_act_label \in BOOLEAN,
     fmt_act \in Formats, font \in Fonts :
    Visualize([DefaultArgs EXCEPT !.acts = acts, !.show_act = show_act,
                                  !.fix_act_label = fix_act_label,
                                  !.fmt_act = fmt_act, !.font = font])

Spec == Init /\ [][Next]_vars

(***************************************************************************)
(* SpecNodes: the caller holds an activity vector and calls visualize with *)
(* varying colour arguments (and no activity labels).                      *)
(***************************************************************************)
UpColors == {NoColor, QColor(Green), NdArray(Green), RgbList(Green), ColorName}
DnColors == {NoColor, QColor(Orange), ColorName}
ActPercentiles == {50, 100}

InitOfNodes ==
  /\ InitNet(FeedbackLoop)
  /\ \E acts \in ActVectors, dtype \in {"float64", "int64"}, pct_act \in ActPercentiles :
       args = [DefaultArgs EXCEPT !.acts = acts, !.dtype = dtype,
                                  !.pct_act = pct_act, !.show_act = FALSE]

NextNodes ==
  \E color_up \in UpColors, color_dn \in DnColors :
    Visualize([args EXCEPT !.color_up = color_up, !.color_dn = color_dn])

SpecNodes == InitOfNodes /\ [][NextNodes]_vars

(***************************************************************************)
(* SpecEdges: the caller holds a network with adjacency matrix A, a flow   *)
(* matrix, line widths and a percentile, and calls visualize once with     *)
(* them (and no activity labels).                                          *)
(***************************************************************************)
LineWidths == {<<1, 10>>, <<10, 1>>, <<5, 5>>}
EdgePercentiles == {50, 90}

InitOfEdges ==
  \E Adj \in Adjacencies, F \in Matrices(FlowValues), lw \in LineWidths,
     pct_edge \in EdgePercentiles :
    /\ InitNet(Adj)
    /\ args = [DefaultArgs EXCEPT !.F = F, !.lw_min = lw[1], !.lw_max = lw[2],
                                  !.pct_edge = pct_edge, !.show_act = FALSE]

NextEdges == res.at = "init" /\ Visualize(args)

SpecEdges == InitOfEdges /\ [][NextEdges]_vars

(***************************************************************************)
(* What the claims speak of.                                               *)
(***************************************************************************)
Called == res.at # "init"
Completed == Called /\ res.err = "none"
HasAct(n) == ActId(n) \in DOMAIN labels
\* the call before the latest one
PrevShowAct == hist # <<>> /\ hist[Len(hist)][1]
PrevHidAct == hist # <<>> /\ hist[Len(hist)] = <<FALSE, TRUE>>
SameGraphics(l1, l2) == l1.pos = l2.pos /\ l1.font = l2.font /\ l1.color = l2.color

(***************************************************************************)
(* C1. Round trip of the activity label.  After a call with show_act=true  *)
(* every node has its label uppercase(iden)+'_act' in the registry; after  *)
(* a call with show_act=false none has, and that call completes; a call    *)
(* with show_act=true made on a network without the labels (the first call *)
(* on it, or the call after a completed show_act=false call) completes     *)
(* and (re)creates them.                                                   *)
(***************************************************************************)
C1_RoundTrip ==
  /\ (Called /\ args.show_act) => \A n \in Nodes : HasAct(n)
  /\ (Called /\ ~args.show_act) => (res.err = "none" /\ \A n \in Nodes : ~HasAct(n))
  /\ (Called /\ args.show_act /\ (hist = <<>> \/ PrevHidAct)) => res.err = "none"

\* the third call of show_act = true, false, true has completed
C1_Witness ==
  /\ hist = <<(<<TRUE, TRUE>>), (<<FALSE, TRUE>>)>>
  /\ args.show_act /\ Completed
  /\ \A n \in Nodes : HasAct(n)

(***************************************************************************)
(* C2. Every call with show_act=true completes, and leaves each node's     *)
(* activity label with the text fmt_act % (the activity of this call),     *)
(* whatever fix_act_label is and also when the label exists already.       *)
(***************************************************************************)
C2_TextIsLatestActivity ==
  (Called /\ args.show_act) =>
    /\ res.err = "none"
    /\ \A n \in Nodes :
         /\ HasAct(n)
         /\ labels[ActId(n)].text = Format(args.fmt_act, args.acts[n2i[n]]).text

NodesUpdated == Called /\ res.at \in {"return", "log_flows", "edge_sign", "edge"}
\* the interpolation target of a colour argument that color resolution accepts
Target(c, default) == IF c.kind = "None" THEN default ELSE c.rgb
TargetOf(n) ==
  IF args.acts[n2i[n]] > 0 THEN Target(args.color_up, Red) ELSE Target(args.color_dn, Blue)
\* trunc(255 + (num/den) * (c - 255)) per channel
Mix(num, den, target) == [c \in 1..3 |-> (255 * den + num * (target[c] - 255)) \div den]

(***************************************************************************)
(* C5. After visualize every node's fill is white + t*(target - white)     *)
(* truncated per channel, target being color_up for an activity a > 0 and  *)
(* color_dn for a <= 0, t = clip(|a|/thr, 0, 1), thr the pct_act-th        *)
(* percentile of |acts| or 1 when that is 0, for every activity vector;    *)
(* and the fill is white when every activity is zero.                      *)
(***************************************************************************)
C5_FillInterpolates ==
  NodesUpdated =>
    \A n \in Nodes :
      LET a == args.acts[n2i[n]]
          thr100 == Thr100(args.acts, args.pct_act)
      IN /\ nodes[n].fill = Mix(Clip(100 * Abs(a), 0, thr100), thr100, TargetOf(n))
         /\ (\A i \in Idx : args.acts[i] = 0) => nodes[n].fill = White

(***************************************************************************)
(* C6. visualize accepts color_up and color_dn as an RGB triple (a         *)
(* 3-element array) or as a colour object: the call does not fail in color *)
(* resolution and the fill is interpolated towards that colour's channels; *)
(* unset, the targets are red for color_up and blue for color_dn.          *)
(***************************************************************************)
Accepted(c) == c.kind \in {"None", "QColor", "ndarray"}
C6_TripleOrColorObject ==
  (Called /\ Accepted(args.color_up) /\ Accepted(args.color_dn)) =>
    /\ res.at \notin {"color_up", "color_dn"}
    /\ \A n \in Nodes :
         nodes[n].fill = Blend(ArrT(args.acts, args.dtype, args.pct_act)[n2i[n]], TargetOf(n))

(***************************************************************************)
(* C7. A call whose color_up or color_dn is set and is neither a colour    *)
(* object nor an RGB triple fails with ValueError, and leaves every node,  *)
(* edge and label and the label registry as they were.                     *)
(***************************************************************************)
Malformed(c) == c.kind = "str"
C7_BadColorIsAtomic ==
  [][(Malformed(args'.color_up) \/ Malformed(args'.color_dn)) =>
       /\ res'.err = "ValueError"
       /\ res'.at \in {"color_up", "color_dn"}
       /\ nodes' = nodes /\ edges' = edges /\ labels' = labels]_vars

\* a malformed color_dn was refused on a network an earlier call had changed
C7_Witness ==
  /\ Called /\ res.err = "ValueError" /\ res.at = "color_dn"
  /\ Malformed(args.color_dn)
  /\ hist # <<>> /\ hist[Len(hist)][2]
  /\ nodes # InitNodes

(***************************************************************************)
(* Edges.                                                                  *)
(***************************************************************************)
\* the positions of the edges, as a set
EdgePos == {p \in Idx \X Idx : A[p[1]][p[2]] # 0}
FlowAt(p) == args.F[p[1]][p[2]]
WidthAt(p) == edges[EdgeKey(p)].width
\* flow_max, flow_min and 100 * flow_thr of the latest call
Stats == FlowStats(LogFlows(args.F), args.pct_edge)
\* the width the interpolation gives an edge whose log-flow is flow_thr
WidthAtThr(st) ==
  IF st.flow_max = st.flow_min THEN <<args.lw_min + args.lw_max, 2>>
  ELSE <<(st.flow_thr100 - 100 * st.flow_min) * (args.lw_max - args.lw_min)
           + args.lw_min * 100 * (st.flow_max - st.flow_min),
         100 * (st.flow_max - st.flow_min)>>

(***************************************************************************)
(* C3. For every nonzero position (i,j) of A and every F, zero anywhere or *)
(* everywhere, after visualize the edge from i2n[j] to i2n[i] has a        *)
(* positive arrowhead and colour (255,10,10,70) if F[i,j] > 0, a negative  *)
(* arrowhead and colour (10,10,255,70) if F[i,j] < 0, and for F[i,j] = 0   *)
(* the arrowhead of the sign of A[i,j], colour (100,100,100,100) and width *)
(* lw_min; the arrowhead keeps the width, height and offset of the one the *)
(* edge had before the call.                                               *)
(***************************************************************************)
C3_EdgeAppearance ==
  [][res'.at \notin {"color_up", "color_dn", "label_act"} =>
       \A p \in EdgePos :
         LET e == edges'[EdgeKey(p)]
             f == args'.F[p[1]][p[2]]
         IN /\ f > 0 => (e.head.cls = "TRIANGLE" /\ e.fill = <<255, 10, 10, 70>>)
            /\ f < 0 => (e.head.cls = "HAMMER" /\ e.fill = <<10, 10, 255, 70>>)
            /\ f = 0 => /\ e.head.cls = IF A[p[1]][p[2]] > 0 THEN "TRIANGLE" ELSE "HAMMER"
                        /\ e.fill = <<100, 100, 100, 100>>
                        /\ FracEq(e.width, FracOf(args'.lw_min))
            /\ e.head.width = edges[EdgeKey(p)].head.width
            /\ e.head.height = edges[EdgeKey(p)].head.height
            /\ e.head.offset = edges[EdgeKey(p)].head.offset]_vars

\* the two halves of C4
WidthsMonotone ==
  \A p, q \in EdgePos :
    (FlowAt(p) # 0 /\ FlowAt(q) # 0 /\ Abs(FlowAt(p)) <= Abs(FlowAt(q)))
       => FracLeq(WidthAt(p), WidthAt(q))
WidthsClamped(st) ==
  \A p \in EdgePos :
    (FlowAt(p) # 0 /\ 100 * Log10(Abs(FlowAt(p))) >= st.flow_thr100)
       => FracEq(WidthAt(p), WidthAtThr(st))

(***************************************************************************)
(* C4. Within one call the edge width is non-decreasing in log10(|f|) over *)
(* the edges with nonzero flow, and every edge whose log10(|f|) is at or   *)
(* above flow_thr has the width of an edge exactly at flow_thr.            *)
(***************************************************************************)
C4_WidthMonotoneClamped ==
  Completed => (WidthsMonotone /\ WidthsClamped(Stats))

(***************************************************************************)
(* C4, amended.  Whenever lw_min <= lw_max, the edge width is              *)
(* non-decreasing in log10(|f|); and, for any lw_min and lw_max, every     *)
(* edge whose log10(|f|) is at or above flow_thr has the width of an edge  *)
(* exactly at flow_thr.                                                    *)
(***************************************************************************)
C4_MonotoneWhenOrdered ==
  Completed =>
    /\ args.lw_min <= args.lw_max => WidthsMonotone
    /\ WidthsClamped(Stats)

\* two edges of different flow magnitude, the larger clamped at flow_thr, of
\* different widths
C4_Witness ==
  /\ Completed /\ args.lw_min < args.lw_max
  /\ \E p, q \in EdgePos :
       /\ FlowAt(p) # 0 /\ FlowAt(q) # 0
       /\ Abs(FlowAt(p)) < Abs(FlowAt(q))
       /\ 100 * Log10(Abs(FlowAt(q))) > Stats.flow_thr100
       /\ ~FracEq(WidthAt(p), WidthAt(q))

(***************************************************************************)
(* C9. No call reaches the RuntimeError 'The logic is abnormal': the edges *)
(* are taken from the nonzero positions of A, where A is positive or       *)
(* negative.                                                               *)
(***************************************************************************)
C9_NoAbnormalLogic == res.err # "RuntimeError"

\* a completed call that visited edges of zero flow, of either sign of A
C9_Witness ==
  /\ Completed
  /\ \E p, q \in EdgePos : FlowAt(p) = 0 /\ FlowAt(q) = 0
                           /\ A[p[1]][p[2]] > 0 /\ A[q[1]][q[2]] < 0

\* the first three parts of C10
WidthsWithinBounds(st) ==
  \A p \in EdgePos :
    /\ FracLeq(FracOf(args.lw_min), WidthAt(p))
    /\ FracLeq(WidthAt(p), FracOf(args.lw_max))
    /\ FlowAt(p) = 0 => FracEq(WidthAt(p), FracOf(args.lw_min))
    /\ (FlowAt(p) # 0 /\ st.flow_max = st.flow_min)
          => FracEq(WidthAt(p), <<args.lw_min + args.lw_max, 2>>)
\* the edges that reach lw_max although the flows differ in magnitude
AtMaxWidth(st) ==
  {p \in EdgePos : /\ FlowAt(p) # 0
                   /\ st.flow_max # st.flow_min
                   /\ FracEq(WidthAt(p), FracOf(args.lw_max))}

(***************************************************************************)
(* C10. Whenever lw_min <= lw_max, after a completed call every edge has a *)
(* width in [lw_min, lw_max]: lw_min for zero flow, (lw_min+lw_max)/2 when *)
(* all nonzero flows have the same magnitude, and otherwise a width that   *)
(* is lw_max only if flow_thr equals flow_max.                             *)
(***************************************************************************)
C10_WidthRange ==
  LET Holds(st) ==
        /\ WidthsWithinBounds(st)
        /\ AtMaxWidth(st) # {} => st.flow_thr100 = 100 * st.flow_max
  IN (Completed /\ args.lw_min <= args.lw_max) => Holds(Stats)

(***************************************************************************)
(* C10, amended.  As C10, the last part being: a width that is lw_max only *)
(* if flow_thr equals flow_max or lw_min equals lw_max.                    *)
(***************************************************************************)
C10_WidthRangeStrictBounds ==
  LET Holds(st) ==
        /\ WidthsWithinBounds(st)
        /\ AtMaxWidth(st) # {} =>
             (st.flow_thr100 = 100 * st.flow_max \/ args.lw_min = args.lw_max)
  IN (Completed /\ args.lw_min <= args.lw_max) => Holds(Stats)

\* flows of different magnitudes, flow_thr = flow_max, and an edge of width
\* lw_max beside an edge of zero flow
C10_Witness ==
  /\ Completed /\ args.lw_min < args.lw_max
  /\ Stats.flow_thr100 = 100 * Stats.flow_max
  /\ AtMaxWidth(Stats) # {}
  /\ \E q \in EdgePos : FlowAt(q) = 0

====
